---- MODULE Spec2Model ----
(***************************************************************************)
(* Model of github.com/jsalonl/go-config: the configuration pipeline       *)
(* (locate file, substitute ${NAME} placeholders, deserialize) of          *)
(* goconfig/config.go (v2, ParseConfig) and of the earlier implementation  *)
(* (v1, NewConfig).  Texts, file names and variable names are sequences of *)
(* one-character strings, so that cutting, case folding and regular        *)
(* expression matching are computed character by character.  LoadEnv of   *)
(* both versions is modelled line by line: open, scan, comment test, split *)
(* at "=", regexEnvFromFile, setter, close.                                *)
(***************************************************************************)
EXTENDS Integers, Sequences, FiniteSets, TLC

VARIABLES
    version,      \* "v2": goconfig/config.go, "v1": the earlier implementation
    g,            \* the goConfig instance: [unmarshallFunc |-> name of the function]
    fs,           \* the file system: directory name -> listing, or NoDir
    env,          \* the process environment: function from set keys to values
    pc,           \* position of the ParseConfig / NewConfig call
    configName,   \* argument configName
    directoryName,\* variadic argument directoryName
    structure,    \* the caller's target structure
    dir,          \* read: local dir
    files,        \* read: local files (result of os.ReadDir)
    idx,          \* read: position of the range loop in files (1-based)
    content,      \* read: local content (result of os.ReadFile)
    searchPos,    \* regexp replaceAll: position the next search starts at
    lastMatchEnd, \* regexp replaceAll: end of the previous match
    buf,          \* regexp replaceAll: output built so far
    ret,          \* value ParseConfig returned: NoRet, Nil or an error
    panicVal,     \* value of the panic that unwound the call, or NoRet
    listed,       \* directories passed to os.ReadDir during the call
    filesRead,    \* <<dir, entry name>> passed to os.ReadFile during the call
    lookups,      \* names passed to os.Getenv during the call
    unmarshalled, \* contents passed to g.unmarshallFunc during the call
    dotenv,       \* the .env files on disk: cleaned path -> file, or NoFile
    setEnvFunc,   \* the setter setEnvVarFromLine calls (v1: a package variable)
    lpc,          \* position of the LoadEnv call
    envFiles,     \* LoadEnv: variadic argument envFiles (defaulted on entry)
    fileIdx,      \* LoadEnv: position of the range loop in envFiles (1-based)
    lineIdx,      \* parseEnvFile: number of the line the scanner yields next
    handles,      \* paths of the files the call has open (os.Open, not yet Close)
    lret,         \* value LoadEnv returned: NoRet, Nil or an error
    opened,       \* paths passed to os.Open during the call
    setCalls,     \* <<key, value>> passed to the setter during the call
    env0,         \* the environment as it was when LoadEnv was called
    given,        \* the envFiles the caller passed to LoadEnv
    last          \* the LoadEnv call before: its arguments, result, environment

vars == <<version, g, fs, env, pc, configName, directoryName, structure, dir,
          files, idx, content, searchPos, lastMatchEnd, buf, ret, panicVal,
          listed, filesRead, lookups, unmarshalled, dotenv, setEnvFunc, lpc,
          envFiles, fileIdx, lineIdx, handles, lret, opened, setCalls, env0,
          given, last>>

\* the state of LoadEnv and of the files it reads
loadVars == <<dotenv, setEnvFunc, lpc, envFiles, fileIdx, lineIdx, handles,
              lret, opened, setCalls, env0, given, last>>

----------------------------------------------------------------------------
(* Bounds of the model.                                                    *)

MaxEntries == 2   \* most entries in the directory that holds the files
MaxSegs == 3      \* most fragments a text of the substitution runs is made of
MaxLines == 2     \* most lines of the file ".env" of the multi-file runs
MaxLineSegs == 4  \* most fragments a line of the single-line runs is made of

----------------------------------------------------------------------------
(* Characters: ASCII codes, word characters, simple case folding.          *)

Digits == <<"0","1","2","3","4","5","6","7","8","9">>
Upper == <<"A","B","C","D","E","F","G","H","I","J","K","L","M",
           "N","O","P","Q","R","S","T","U","V","W","X","Y","Z">>
Lower == <<"a","b","c","d","e","f","g","h","i","j","k","l","m",
           "n","o","p","q","r","s","t","u","v","w","x","y","z">>

Range(s) == {s[i] : i \in 1..Len(s)}

IndexIn(s, c) == CHOOSE i \in 1..Len(s) : s[i] = c

Code(c) ==
    CASE c \in Range(Digits) -> 47 + IndexIn(Digits, c)
      [] c \in Range(Upper) -> 64 + IndexIn(Upper, c)
      [] c \in Range(Lower) -> 96 + IndexIn(Lower, c)
      [] c = " " -> 32
      [] c = "#" -> 35
      [] c = "$" -> 36
      [] c = "-" -> 45
      [] c = "." -> 46
      [] c = ":" -> 58
      [] c = "=" -> 61
      [] c = "_" -> 95
      [] c = "{" -> 123
      [] c = "}" -> 125

\* \w of Go's regexp (RE2): [0-9A-Za-z_]
IsWord(c) == c \in Range(Digits) \cup Range(Upper) \cup Range(Lower) \cup {"_"}

\* simple case folding of an ASCII character
Fold(c) == IF c \in Range(Upper) THEN Lower[IndexIn(Upper, c)] ELSE c

\* strings.EqualFold
EqualFold(s, t) ==
    /\ Len(s) = Len(t)
    /\ \A i \in 1..Len(s) : Fold(s[i]) = Fold(t[i])

\* bytewise s < t, the order os.ReadDir sorts entry names by
RECURSIVE Less(_, _)
Less(s, t) ==
    IF t = <<>> THEN FALSE
    ELSE IF s = <<>> THEN TRUE
    ELSE IF Code(Head(s)) # Code(Head(t)) THEN Code(Head(s)) < Code(Head(t))
    ELSE Less(Tail(s), Tail(t))

\* strings.Cut(s, sep) for a one-character sep: <<before, after, found>>
Cut(s, sep) ==
    IF sep \notin Range(s) THEN <<s, <<>>, FALSE>>
    ELSE LET i == CHOOSE k \in 1..Len(s) :
                      s[k] = sep /\ \A j \in 1..(k-1) : s[j] # sep
         IN <<SubSeq(s, 1, i - 1), SubSeq(s, i + 1, Len(s)), TRUE>>

\* slices.Contains
Contains(list, x) == \E i \in 1..Len(list) : list[i] = x

----------------------------------------------------------------------------
(* Errors.  An error is the chain of sentinels it wraps (outermost first)  *)
(* and the value formatted into its message.                               *)

NoRet == [kind |-> "none", chain |-> <<>>, detail |-> <<>>]
Nil == [kind |-> "nil", chain |-> <<>>, detail |-> <<>>]

\* fmt.Errorf(formatError, sentinel, v) and fmt.Errorf("%w: in ... %v", sentinel, v)
Errorf(sentinel, v) == [kind |-> "error", chain |-> <<sentinel>>, detail |-> v]
\* fmt.Errorf("...: %w", err) of the earlier implementation
Wrap(label, err) == [kind |-> "error", chain |-> <<label>> \o err.chain, detail |-> err.detail]
IsError(e) == e.kind = "error"
\* errors.Is(e, sentinel)
ErrorIs(e, sentinel) == IsError(e) /\ Contains(e.chain, sentinel)

----------------------------------------------------------------------------
(* The regular expression regexEnv = \${(\w+)} and the replacement loop.   *)

\* largest e >= k - 1 such that t[k..e] are all word characters
RECURSIVE WordRunEnd(_, _)
WordRunEnd(t, k) ==
    IF k <= Len(t) /\ IsWord(t[k]) THEN WordRunEnd(t, k + 1) ELSE k - 1

\* faulty variant: the placeholder name may be empty (\w* instead of \w+)
MatchEndEmptyName(t, i) ==
    IF i + 2 <= Len(t) /\ t[i] = "$" /\ t[i + 1] = "{"
    THEN LET e == WordRunEnd(t, i + 2)
         IN IF e + 1 <= Len(t) /\ t[e + 1] = "}" THEN e + 1 ELSE 0
    ELSE 0

\* regexEnv anchored at i: index of the closing brace of the match, 0 if none
MatchEnd(t, i) ==
    IF i + 3 <= Len(t) /\ t[i] = "$" /\ t[i + 1] = "{"
    THEN LET e == WordRunEnd(t, i + 2)
         IN IF e >= i + 2 /\ e + 1 <= Len(t) /\ t[e + 1] = "}" THEN e + 1 ELSE 0
    ELSE 0

\* leftmost match of regexEnv in t starting the search at from: its start, 0 if none
RECURSIVE FindFrom(_, _)
FindFrom(t, from) ==
    IF from > Len(t) THEN 0
    ELSE IF MatchEnd(t, from) # 0 THEN from
    ELSE FindFrom(t, from + 1)

\* regexEnv.FindStringSubmatch(match)[1]: the text of the capture group
FindStringSubmatch1(match) ==
    LET s == FindFrom(match, 1)
    IN SubSeq(match, s + 2, MatchEnd(match, s) - 1)

\* os.Getenv: the value, the empty string when the variable is unset
Getenv(e, k) == IF k \in DOMAIN e THEN e[k] ELSE <<>>

----------------------------------------------------------------------------
(* Program constants.                                                      *)

excludeExtensions == << <<"g","o">> >>
supportedExtensions == << <<"y","a","m","l">>, <<"y","m","l">>, <<"j","s","o","n">> >>
DefaultDir == "config"

\* faulty variant: no extension is filtered out
ExtensionPassesAny(v, extension) == TRUE

\* the extension filter of read: deny list in v2, whitelist in v1
ExtensionPasses(v, extension) ==
    IF v = "v2" THEN ~Contains(excludeExtensions, extension)
    ELSE Contains(supportedExtensions, extension)

\* faulty variant: the last directoryName argument is used
ResolveDirLast(basePath) ==
    IF Len(basePath) > 0 THEN basePath[Len(basePath)] ELSE DefaultDir

\* dir := "config"; if len(basePath) > 0 { dir = basePath[0] }
ResolveDir(basePath) == IF Len(basePath) > 0 THEN basePath[1] ELSE DefaultDir

\* NewGoConfig(unmarshallFunc ...): the instance built from the variadic argument
NewGoConfig(unmarshallFunc) ==
    [unmarshallFunc |-> IF Len(unmarshallFunc) > 0 THEN unmarshallFunc[1]
                        ELSE "unmarshallYAML"]

\* faulty variant: the default deserializer returns the parser's error as it is
UnmarshallErrorBare(f) == Errorf(f, <<f, "parse error">>)

\* the error a failing deserializer returns: unmarshallYAML (v2) and
\* unmarshallGeneric (v1) put the parser's error under ErrUnmarshalling, an
\* injected function returns an error of its own
UnmarshallError(f) ==
    IF f \in {"unmarshallYAML", "unmarshallGeneric"}
    THEN Errorf("ErrUnmarshalling", <<"yaml", "parse error">>)
    ELSE Errorf(f, <<f, "parse error">>)

----------------------------------------------------------------------------
(* The inputs of the model: file names, texts, directories, environments.  *)

PhA == <<"$","{","A","}">>
PhB == <<"$","{","B","}">>
NameA == <<"A">>
NameB == <<"B">>

n_APP_json == <<"A","P","P",".","j","s","o","n">>
n_app == <<"a","p","p">>
n_app_d_yml == <<"a","p","p",".","d",".","y","m","l">>
n_app_go == <<"a","p","p",".","g","o">>
n_app_toml == <<"a","p","p",".","t","o","m","l">>
n_app_yaml == <<"a","p","p",".","y","a","m","l">>
n_db_yml == <<"d","b",".","y","m","l">>

FileNames == {n_APP_json, n_app, n_app_d_yml, n_app_go, n_app_toml, n_app_yaml, n_db_yml}

\* the content each file has when it is present and readable
FileText(name) ==
    CASE name = n_APP_json -> <<"j">>
      [] name = n_app -> <<"n">> \o PhA
      [] name = n_app_d_yml -> PhB \o <<"d">>
      [] name = n_app_go -> <<"g">>
      [] name = n_app_toml -> PhA \o <<"t">> \o PhB
      [] name = n_app_yaml -> <<"y">> \o PhB \o PhA
      [] name = n_db_yml -> <<"b">> \o PhA

ConfigNames == { <<"A","p","p">>, <<"d","b">> }
DirArgs == { <<>>, <<"d1">>, <<"d1", "d2">>, <<"d2", "d1">> }
DirNames == {"config", "d1", "d2"}
UnmarshallArgs == { <<>>, <<"unmarshallTOML">>, <<"unmarshallJSON", "unmarshallTOML">> }

\* the names of S in the order os.ReadDir returns them (sorted by file name)
RECURSIVE SortNames(_)
SortNames(S) ==
    IF S = {} THEN <<>>
    ELSE LET m == CHOOSE x \in S : \A y \in S \ {x} : Less(x, y)
         IN <<m>> \o SortNames(S \ {m})

Entry(name, readable) == [name |-> name, readable |-> readable, data |-> FileText(name)]

\* every listing of at most MaxEntries files, each readable or not
Listings ==
    UNION { LET names == SortNames(S)
            IN { [i \in 1..Len(names) |-> Entry(names[i], r[i])] :
                     r \in [1..Len(names) -> BOOLEAN] } :
            S \in {T \in SUBSET FileNames : Cardinality(T) <= MaxEntries} }

NoDir == [listable |-> FALSE, entries |-> <<>>]
Dir(entries) == [listable |-> TRUE, entries |-> entries]
Decoy == Dir(<< Entry(n_app_go, TRUE), Entry(n_db_yml, TRUE) >>)

\* file systems: "config" holds the listing beside a decoy "d1", or "config" is
\* missing and "d1" holds the listing beside a decoy "d2"
FileSystems ==
    { [d \in DirNames |-> IF d = "config" THEN Dir(l)
                          ELSE IF d = "d1" THEN Decoy ELSE NoDir] : l \in Listings }
    \cup
    { [d \in DirNames |-> IF d = "config" THEN NoDir
                          ELSE IF d = "d1" THEN Dir(l) ELSE Decoy] : l \in Listings }

EmptyEnv == [k \in {} |-> <<>>]
Environments ==
    { EmptyEnv,
      [k \in {NameA, NameB} |-> IF k = NameA THEN <<>> ELSE <<"w">>],
      [k \in {NameA} |-> <<"v">>],
      [k \in {NameA, NameB} |-> IF k = NameA THEN <<"v">> ELSE <<"w">>] }

Zero == [state |-> "zero", from |-> <<>>]

\* the texts of the substitution runs: at most MaxSegs fragments, concatenated
Frags == { PhA, PhB, <<"x">>, <<"$">>, <<"$","{">>, <<"A","}">>, <<"}">> }

RECURSIVE TextsOf(_)
TextsOf(n) ==
    IF n = 0 THEN { <<>> }
    ELSE LET shorter == TextsOf(n - 1)
         IN shorter \cup { t \o f : t \in shorter, f \in Frags }

Texts == TextsOf(MaxSegs)

\* environments of the substitution runs: values with "$", "{" and a placeholder
ValuesA == { <<>>, <<"v">>, PhB, <<"$","{">> }
SubstEnvironments ==
    { [k \in ks |-> IF k = NameA THEN a ELSE <<"w">>] :
          ks \in SUBSET {NameA, NameB}, a \in ValuesA }

----------------------------------------------------------------------------
(* Lines of a .env file: comment test, split at "=", regexEnvFromFile,     *)
(* and the setter.                                                         *)

\* the byte 0 inside a line (one character of the text)
NulByte == "\\0"

\* \s of Go's regexp (RE2) and White_Space of strings.TrimSpace, on the
\* characters of the model
IsSpace(c) == c \in {" ", "\t"}

\* a character of the class [\w.-]
IsKeyChar(c) == IsWord(c) \/ c \in {".", "-"}

\* strings.HasPrefix(line, prefix) for a one-character prefix
HasPrefix(line, c) == Len(line) >= 1 /\ line[1] = c

\* strings.TrimSpace(line) == ""
TrimsToEmpty(line) == \A i \in 1..Len(line) : IsSpace(line[i])

isCommentOrEmpty(line) == HasPrefix(line, "#") \/ TrimsToEmpty(line)

\* position of the first sep in s at or after k, 0 when there is none
RECURSIVE IndexFrom(_, _, _)
IndexFrom(s, sep, k) ==
    IF k > Len(s) THEN 0
    ELSE IF s[k] = sep THEN k
    ELSE IndexFrom(s, sep, k + 1)

\* strings.SplitN(s, sep, 2) for a one-character sep
SplitN(s, sep) ==
    LET i == IndexFrom(s, sep, 1)
    IN IF i = 0 THEN << s >>
       ELSE << SubSeq(s, 1, i - 1), SubSeq(s, i + 1, Len(s)) >>

\* largest e >= k - 1 such that s[k..e] are all white space
RECURSIVE SpaceRunEnd(_, _)
SpaceRunEnd(s, k) ==
    IF k <= Len(s) /\ IsSpace(s[k]) THEN SpaceRunEnd(s, k + 1) ELSE k - 1

\* largest e >= k - 1 such that s[k..e] are all of [\w.-]
RECURSIVE KeyRunEnd(_, _)
KeyRunEnd(s, k) ==
    IF k <= Len(s) /\ IsKeyChar(s[k]) THEN KeyRunEnd(s, k + 1) ELSE k - 1

\* faulty variant: the key group may be empty, ([\w.-]*)
MatchStringEmptyKey(line) ==
    LET a == SpaceRunEnd(line, 1)
        b == KeyRunEnd(line, a + 1)
        c == SpaceRunEnd(line, b + 1)
    IN c + 1 <= Len(line) /\ line[c + 1] = "="

\* regexEnvFromFile.MatchString(line), ^\s*([\w.-]+)\s*=\s*(.*)?\s*$ : the
\* three classes before "=" are disjoint, so the greedy runs decide; after "="
\* the rest matches whenever it holds no line feed, and a scanned line holds none
MatchString(line) ==
    LET a == SpaceRunEnd(line, 1)
        b == KeyRunEnd(line, a + 1)
        c == SpaceRunEnd(line, b + 1)
    IN /\ b >= a + 1
       /\ c + 1 <= Len(line)
       /\ line[c + 1] = "="

\* faulty variant: the setter never fails
SetenvFailsNever(key, value) == FALSE

\* os.Setenv(key, value) fails (EINVAL): empty key, "=" or byte 0 in the key,
\* byte 0 in the value
SetenvFails(key, value) ==
    \/ key = <<>>
    \/ \E i \in 1..Len(key) : key[i] \in {"=", NulByte}
    \/ \E i \in 1..Len(value) : value[i] = NulByte

\* the error of the setter in use
SetenvError(f, key) ==
    IF f = "os.Setenv" THEN Wrap("setenv", Errorf("EINVAL", <<>>))
    ELSE Errorf("simulated error setting", key)

\* the setter in use applied to key, value: its error or Nil
SetEnvResult(f, key, value) ==
    IF f = "os.Setenv"
    THEN IF SetenvFails(key, value) THEN SetenvError(f, key) ELSE Nil
    ELSE SetenvError(f, key)

\* faulty variant: setting a variable unsets the others
SetenvAlone(e, key, value) == [k \in {key} |-> value]

\* faulty variant: a variable that is set gets the new value appended
SetenvAppend(e, key, value) ==
    [k \in DOMAIN e \cup {key} |->
        IF k # key THEN e[k] ELSE IF k \in DOMAIN e THEN e[k] \o value ELSE value]

\* faulty variant: a variable that is set keeps its value
SetenvIfUnset(e, key, value) ==
    [k \in DOMAIN e \cup {key} |-> IF k \in DOMAIN e THEN e[k] ELSE value]

\* the environment after os.Setenv(key, value) succeeded
Setenv(e, key, value) ==
    [k \in DOMAIN e \cup {key} |-> IF k = key THEN value ELSE e[k]]

\* faulty variant: the error does not carry the line
InvalidEnvFormatBare(line) == Errorf("ErrInvalidEnvFormat", <<>>)

\* the invalid-format error of setEnvVarFromLine
InvalidEnvFormat(line) == Errorf("ErrInvalidEnvFormat", line)

\* faulty variant: the value is the line's remainder with white space removed
LineValueTrimmed(parts) ==
    LET v == parts[2]
        a == SpaceRunEnd(v, 1)
    IN SubSeq(v, a + 1, Len(v))

\* key, value := parts[0], parts[1]
LineKey(parts) == parts[1]
LineValue(parts) == parts[2]

\* setEnvVarFromLine(re, line) up to the call of the setter: the checks run in
\* the order of the version; [err |-> the error of the failed check or Nil,
\* key, value |-> the arguments of the setter]
setEnvVarFromLine(v, line) ==
    LET parts == SplitN(line, "=")
        splitOk == Len(parts) = 2
        reOk == MatchString(line)
        first == IF v = "v2" THEN splitOk ELSE reOk
        second == IF v = "v2" THEN reOk ELSE splitOk
    IN IF ~first THEN [err |-> InvalidEnvFormat(line), key |-> <<>>, value |-> <<>>]
       ELSE IF ~second THEN [err |-> InvalidEnvFormat(line), key |-> <<>>, value |-> <<>>]
       ELSE [err |-> Nil, key |-> LineKey(parts), value |-> LineValue(parts)]

----------------------------------------------------------------------------
(* Paths and .env files.  A path is the sequence of its "/"-separated      *)
(* elements; a file is openable or not, holds lines, and its reading ends  *)
(* at end of file or with an I/O error.                                    *)

\* path.Clean on a relative path: "." elements are dropped, ".." removes the
\* element before it, the empty result is "."
RECURSIVE CleanFrom(_, _, _)
CleanFrom(p, k, out) ==
    IF k > Len(p) THEN (IF out = <<>> THEN <<".">> ELSE out)
    ELSE IF p[k] = "." THEN CleanFrom(p, k + 1, out)
    ELSE IF p[k] = ".." /\ out # <<>> /\ out[Len(out)] # ".."
         THEN CleanFrom(p, k + 1, SubSeq(out, 1, Len(out) - 1))
    ELSE CleanFrom(p, k + 1, Append(out, p[k]))

\* path.Join(dir, envFile)
Join(d, envFile) == CleanFrom(<<d>> \o envFile, 1, <<>>)

\* faulty variant: the default is the empty list of files
DefaultEnvFilesNone == <<>>

\* envFiles = []string{".env"}
DefaultEnvFiles == << <<".env">> >>

NoFile == [openable |-> FALSE, lines |-> <<>>, readFails |-> FALSE]
File(ls, fails) == [openable |-> TRUE, lines |-> ls, readFails |-> fails]

\* the error openFile returns when os.Open fails
OpenFileError(v, filePath) ==
    IF v = "v2" THEN Errorf("ErrOpeningEnvFile", filePath)
    ELSE Wrap("ErrOpeningEnvFile", Errorf("os.Open", filePath))

\* the error parseEnvFile returns when scanner.Err() is not nil
ScanError(filePath) == Wrap("error reading .env file", Errorf("read", filePath))

\* the arguments LoadEnv is called with: none, "./db.env" then ".env",
\* and ".env", a file that does not exist, "db.env"
EnvFileArgs ==
    { <<>>,
      << <<".", "db.env">>, <<".env">> >>,
      << <<".env">>, <<"missing.env">>, <<"db.env">> >> }

EnvPaths == { <<".env">>, <<"db.env">>, <<"missing.env">> }

L_A_v == <<"A", "=", "v">>
L_A_x == <<"A", "=", "x">>
L_B_w == <<"B", "=", "w">>
L_B_nul == <<"B", "=", NulByte>>
L_comment == <<"#", "c">>
L_colon == <<"A", ":", "v">>
L_colon_eq == <<"A", ":", "=", "v">>
L_spaced == <<" ", "A", " ", "=", "v">>

\* lines of the files of the multi-file runs
EnvLines == {L_A_v, L_A_x, L_B_w, L_B_nul, L_comment, L_colon, L_colon_eq}

\* all sequences of at most n elements of S
SeqsUpTo(S, n) == UNION { [1..k -> S] : k \in 0..n }

\* ".env" holds any lines of EnvLines, "db.env" assigns A and B or is a
\* file whose reading fails, "missing.env" does not exist
EnvFileSystems ==
    { [p \in EnvPaths |->
          IF p = <<".env">> THEN File(ls, FALSE)
          ELSE IF p = <<"db.env">> THEN db
          ELSE NoFile] :
      ls \in SeqsUpTo(EnvLines, MaxLines),
      db \in { File(<<L_B_w, L_A_x>>, FALSE), File(<<L_A_v>>, TRUE) } }

\* fragments the lines of the single-line runs are made of
LineFrags == { <<"A">>, <<".">>, <<" ">>, <<"=">>, <<"#">>, <<":">>, <<NulByte>> }

RECURSIVE Concat(_)
Concat(ss) == IF ss = <<>> THEN <<>> ELSE Head(ss) \o Concat(Tail(ss))

Lines == { Concat(ss) : ss \in SeqsUpTo(LineFrags, MaxLineSegs) }

\* the environment before the first call: empty, or A and C set
EnvEnvironments ==
    { EmptyEnv,
      [k \in { <<"A">>, <<"C">> } |-> IF k = <<"A">> THEN <<"o","l","d">> ELSE <<"k">>] }

\* the setters a version can run with
SetEnvFuncs(v) == IF v = "v2" THEN {"os.Setenv"} ELSE {"os.Setenv", "mock"}

----------------------------------------------------------------------------
(* Initial states.                                                         *)

\* no LoadEnv call is under way
LoadIdle ==
    /\ lpc = "idle"
    /\ envFiles = <<>>
    /\ fileIdx = 0
    /\ lineIdx = 0
    /\ handles = {}
    /\ lret = NoRet
    /\ opened = <<>>
    /\ setCalls = <<>>
    /\ env0 = env
    /\ given = <<>>

\* no LoadEnv call has returned yet
NoLast == [given |-> <<>>, lret |-> NoRet, env |-> EmptyEnv]

\* no .env file exists
NoEnvFiles == [p \in EnvPaths |-> NoFile]

\* the state of the caller between two calls
Idle ==
    /\ pc = "idle"
    /\ configName = <<>>
    /\ directoryName = <<>>
    /\ structure = Zero
    /\ dir = ""
    /\ files = <<>>
    /\ idx = 0
    /\ content = <<>>
    /\ searchPos = 0
    /\ lastMatchEnd = 0
    /\ buf = <<>>
    /\ ret = NoRet
    /\ panicVal = NoRet
    /\ listed = <<>>
    /\ filesRead = <<>>
    /\ lookups = <<>>
    /\ unmarshalled = <<>>

Init ==
    /\ version \in {"v1", "v2"}
    /\ g \in IF version = "v2" THEN {NewGoConfig(a) : a \in UnmarshallArgs}
             ELSE {[unmarshallFunc |-> "unmarshallGeneric"]}
    /\ fs \in FileSystems
    /\ env \in Environments
    /\ Idle
    /\ dotenv = NoEnvFiles
    /\ setEnvFunc = "os.Setenv"
    /\ LoadIdle
    /\ last = NoLast

\* replaceEnvVariables entered with a text of Texts: read has listed "config",
\* matched its one entry and read the text from it
InitSubst ==
    /\ version \in {"v1", "v2"}
    /\ g = IF version = "v2" THEN NewGoConfig(<<>>)
           ELSE [unmarshallFunc |-> "unmarshallGeneric"]
    /\ env \in SubstEnvironments
    /\ content \in Texts
    /\ files = << [name |-> n_app_yaml, readable |-> TRUE, data |-> content] >>
    /\ fs = [d \in DirNames |-> IF d = DefaultDir THEN Dir(files) ELSE NoDir]
    /\ pc = "replace"
    /\ configName = <<"A","p","p">>
    /\ directoryName = <<>>
    /\ structure = Zero
    /\ dir = DefaultDir
    /\ idx = 1
    /\ searchPos = 0
    /\ lastMatchEnd = 0
    /\ buf = <<>>
    /\ ret = NoRet
    /\ panicVal = NoRet
    /\ listed = <<DefaultDir>>
    /\ filesRead = << <<DefaultDir, n_app_yaml>> >>
    /\ lookups = <<>>
    /\ unmarshalled = <<>>
    /\ dotenv = NoEnvFiles
    /\ setEnvFunc = "os.Setenv"
    /\ LoadIdle
    /\ last = NoLast

----------------------------------------------------------------------------
(* The call ParseConfig(structure, configName, directoryName...) of v2,    *)
(* NewConfig(structure, configName, directoryName...) of v1.               *)

ParseConfigCall ==
    /\ pc = "idle"
    /\ \E c \in ConfigNames, d \in DirArgs :
           /\ configName' = c
           /\ directoryName' = d
    /\ pc' = "readdir"
    /\ UNCHANGED loadVars
    /\ UNCHANGED <<version, g, fs, env, structure, dir, files, idx, content,
                   searchPos, lastMatchEnd, buf, ret, panicVal, listed,
                   filesRead, lookups, unmarshalled>>

\* the error read (v2) or readConfig (v1) returns when os.ReadDir fails
ReadDirError(v, basePath, d) ==
    IF v = "v2" THEN Errorf("ErrOpenDir", basePath)
    ELSE Wrap("ErrReadingConfig", Errorf("os.ReadDir", d))

\* dir is resolved and listed with os.ReadDir
ReadDir ==
    /\ pc = "readdir"
    /\ LET d == ResolveDir(directoryName)
       IN /\ dir' = d
          /\ listed' = Append(listed, d)
          /\ IF ~fs[d].listable
             THEN /\ ret' = ReadDirError(version, directoryName, d)
                  /\ pc' = "done"
                  /\ UNCHANGED <<files, idx>>
             ELSE /\ files' = fs[d].entries
                  /\ idx' = 1
                  /\ pc' = "loop"
                  /\ UNCHANGED ret
    /\ UNCHANGED loadVars
    /\ UNCHANGED <<version, g, fs, env, configName, directoryName, structure,
                   content, searchPos, lastMatchEnd, buf, panicVal,
                   filesRead, lookups, unmarshalled>>

\* faulty variant: the end of the loop reports a read failure
NoMatchErrorAsReadingFile(v, fileName) == Errorf("ErrReadingFile", fileName)

\* the error returned when the loop ends without a match
NoMatchError(v, fileName) ==
    IF v = "v2" THEN Errorf("ErrUnsupportedExt", fileName)
    ELSE Wrap("ErrReadingConfig", Errorf("ErrUnsupportedExt", fileName))

\* the body of the range loop of read decides to read the entry
EntryMatches(v, entryName, fileName) ==
    LET c == Cut(entryName, ".")
    IN /\ c[3]
       /\ ExtensionPasses(v, c[2])
       /\ EqualFold(c[1], fileName)

\* one iteration of the range loop of read, or its end
ReadLoop ==
    /\ pc = "loop"
    /\ IF idx > Len(files)
       THEN /\ ret' = NoMatchError(version, configName)
            /\ pc' = "done"
            /\ UNCHANGED idx
       ELSE IF EntryMatches(version, files[idx].name, configName)
       THEN /\ pc' = "readfile"
            /\ UNCHANGED <<idx, ret>>
       ELSE /\ idx' = idx + 1
            /\ UNCHANGED <<pc, ret>>
    /\ UNCHANGED loadVars
    /\ UNCHANGED <<version, g, fs, env, configName, directoryName, structure,
                   dir, files, content, searchPos, lastMatchEnd, buf, panicVal,
                   listed, filesRead, lookups, unmarshalled>>

\* faulty variant: the first entry of the directory is read
FileAtFirst(f, d, name) == f[d].entries[1]

\* the file at path.Join(d, name) in the file system
FileAt(f, d, name) ==
    LET es == f[d].entries
    IN es[CHOOSE i \in 1..Len(es) : es[i].name = name]

\* faulty variant: a read failure is reported as no file found
ReadFileErrorAsUnsupported(v, fileName) == Errorf("ErrUnsupportedExt", fileName)

\* the error returned when os.ReadFile fails
ReadFileError(v, fileName) ==
    IF v = "v2" THEN Errorf("ErrReadingFile", fileName)
    ELSE Wrap("ErrReadingConfig", Wrap("ErrReadingFile", Errorf("os.ReadFile", fileName)))

\* os.ReadFile of the matching entry
ReadFile ==
    /\ pc = "readfile"
    /\ filesRead' = Append(filesRead, <<dir, files[idx].name>>)
    /\ LET file == FileAt(fs, dir, files[idx].name)
       IN IF ~file.readable
          THEN /\ ret' = ReadFileError(version, configName)
               /\ pc' = "done"
               /\ UNCHANGED <<content, searchPos, lastMatchEnd, buf>>
          ELSE /\ content' = file.data
               /\ searchPos' = 0
               /\ lastMatchEnd' = 0
               /\ buf' = <<>>
               /\ pc' = "replace"
               /\ UNCHANGED ret
    /\ UNCHANGED loadVars
    /\ UNCHANGED <<version, g, fs, env, configName, directoryName, structure,
                   dir, files, idx, panicVal, listed, lookups, unmarshalled>>

\* faulty variant: the value is expanded once more before it is inserted
RECURSIVE ExpandAll(_, _)
ExpandAll(e, t) ==
    LET s == FindFrom(t, 1)
    IN IF s = 0 THEN [out |-> t, looked |-> <<>>, bad |-> FALSE]
       ELSE LET m == MatchEnd(t, s)
                name == SubSeq(t, s + 2, m - 1)
                v == Getenv(e, name)
                rest == ExpandAll(e, SubSeq(t, m + 1, Len(t)))
            IN [out |-> SubSeq(t, 1, s - 1) \o v \o rest.out,
                looked |-> <<name>> \o rest.looked,
                bad |-> v = <<>> \/ rest.bad]

replRecursive(e, match) ==
    LET envVar == FindStringSubmatch1(match)
        v == Getenv(e, envVar)
        x == ExpandAll(e, v)
    IN [envVar |-> envVar, looked |-> <<envVar>> \o x.looked,
        panics |-> v = <<>> \/ x.bad, out |-> x.out]

\* faulty variant: a variable that is unset or empty is replaced by the empty text
replLenient(e, match) ==
    LET envVar == FindStringSubmatch1(match)
    IN [envVar |-> envVar, looked |-> <<envVar>>,
        panics |-> FALSE, out |-> Getenv(e, envVar)]

\* the callback of ReplaceAllStringFunc: the variable named by the match is
\* looked up; it panics when the value is empty, else returns the value
repl(e, match) ==
    LET envVar == FindStringSubmatch1(match)
        v == Getenv(e, envVar)
    IN [envVar |-> envVar, looked |-> <<envVar>>,
        panics |-> v = <<>>, out |-> v]

\* one round of the loop of regexp's replaceAll under replaceEnvVariables:
\* the next match is replaced, or the text after the last match is copied and
\* replaceEnvVariables and read return
ReplaceStep ==
    /\ pc = "replace"
    /\ LET s == FindFrom(content, searchPos + 1)
       IN IF s = 0
          THEN /\ buf' = buf \o SubSeq(content, lastMatchEnd + 1, Len(content))
               /\ pc' = "unmarshall"
               /\ UNCHANGED <<searchPos, lastMatchEnd, lookups, panicVal>>
          ELSE LET e == MatchEnd(content, s)
                   r == repl(env, SubSeq(content, s, e))
               IN /\ lookups' = lookups \o r.looked
                  /\ IF r.panics
                     THEN /\ panicVal' = Errorf("ErrVariableNotFound", r.envVar)
                          /\ pc' = "panicked"
                          /\ buf' = <<>>
                          /\ UNCHANGED <<searchPos, lastMatchEnd>>
                     ELSE /\ buf' = buf \o SubSeq(content, lastMatchEnd + 1, s - 1) \o r.out
                          /\ lastMatchEnd' = e
                          /\ searchPos' = e
                          /\ UNCHANGED <<pc, panicVal>>
    /\ UNCHANGED loadVars
    /\ UNCHANGED <<version, g, fs, env, configName, directoryName, structure,
                   dir, files, idx, content, ret, listed, filesRead, unmarshalled>>

\* faulty variant: the deserializer is given the text as read from the file
UnmarshallInputRaw(raw, substituted) == raw

\* the content ParseConfig passes on: the []byte(contentStr) read returned
UnmarshallInput(raw, substituted) == substituted

\* g.unmarshallFunc(structure, content) and the return of ParseConfig.  The
\* deserializer is a collaborator: it succeeds and fills the structure, or
\* fails, leaving the structure as it was or partly filled.
Unmarshall ==
    /\ pc = "unmarshall"
    /\ LET c == UnmarshallInput(content, buf)
       IN /\ unmarshalled' = Append(unmarshalled, c)
          /\ \/ /\ structure' = [state |-> "decoded", from |-> c]
                /\ ret' = Nil
             \/ /\ structure' \in {structure, [state |-> "partial", from |-> c]}
                /\ ret' = UnmarshallError(g.unmarshallFunc)
    /\ pc' = "done"
    /\ UNCHANGED loadVars
    /\ UNCHANGED <<version, g, fs, env, configName, directoryName, dir, files,
                   idx, content, searchPos, lastMatchEnd, buf, panicVal,
                   listed, filesRead, lookups>>

\* the caller takes the result (or recovers the panic) and is ready to call again
Return ==
    /\ pc \in {"done", "panicked"}
    /\ pc' = "idle"
    /\ configName' = <<>>
    /\ directoryName' = <<>>
    /\ structure' = Zero
    /\ dir' = ""
    /\ files' = <<>>
    /\ idx' = 0
    /\ content' = <<>>
    /\ searchPos' = 0
    /\ lastMatchEnd' = 0
    /\ buf' = <<>>
    /\ ret' = NoRet
    /\ panicVal' = NoRet
    /\ listed' = <<>>
    /\ filesRead' = <<>>
    /\ lookups' = <<>>
    /\ unmarshalled' = <<>>
    /\ UNCHANGED loadVars
    /\ UNCHANGED <<version, g, fs, env>>

Next ==
    \/ ParseConfigCall
    \/ ReadDir
    \/ ReadLoop
    \/ ReadFile
    \/ ReplaceStep
    \/ Unmarshall
    \/ Return

Spec == Init /\ [][Next]_vars

\* replaceEnvVariables alone, applied to every text of Texts
NextSubst == ReplaceStep

SpecSubst == InitSubst /\ [][NextSubst]_vars

----------------------------------------------------------------------------
(* The call LoadEnv(envFiles...): method of goConfig in v2, function in v1. *)

\* the state of the ParseConfig / NewConfig call
configVars == <<pc, configName, directoryName, structure, dir, files, idx,
                content, searchPos, lastMatchEnd, buf, ret, panicVal, listed,
                filesRead, lookups, unmarshalled>>

\* entry: dir := ".", the default of envFiles
LoadEnvCall ==
    /\ lpc = "idle"
    /\ \E a \in EnvFileArgs :
           /\ given' = a
           /\ envFiles' = IF Len(a) = 0 THEN DefaultEnvFiles ELSE a
    /\ fileIdx' = 1
    /\ lpc' = "open"
    /\ env0' = env
    /\ UNCHANGED <<version, g, fs, env, dotenv, setEnvFunc, lineIdx, handles,
                   lret, opened, setCalls, last>>
    /\ UNCHANGED configVars

\* the path of the file the range loop is at
filePath == Join(".", envFiles[fileIdx])

\* head of the range loop: return nil after the last file, else openFile
OpenFile ==
    /\ lpc = "open"
    /\ IF fileIdx > Len(envFiles)
       THEN /\ lret' = Nil
            /\ lpc' = "done"
            /\ UNCHANGED <<opened, handles, lineIdx>>
       ELSE /\ opened' = Append(opened, filePath)
            /\ IF dotenv[filePath].openable
               THEN /\ handles' = handles \cup {filePath}
                    /\ lineIdx' = 1
                    /\ lpc' = "scan"
                    /\ UNCHANGED lret
               ELSE /\ lret' = OpenFileError(version, filePath)
                    /\ lpc' = "done"
                    /\ UNCHANGED <<handles, lineIdx>>
    /\ UNCHANGED <<version, g, fs, env, dotenv, setEnvFunc, envFiles, fileIdx,
                   setCalls, env0, given, last>>
    /\ UNCHANGED configVars

\* the lines of a file from line k on gone through in one go: the environment,
\* the scanner's position, the setter calls and the error that ended it
RECURSIVE RunLines(_, _, _, _)
RunLines(e, ls, k, calls) ==
    IF k > Len(ls)
    THEN [env |-> e, lineIdx |-> k, calls |-> calls, err |-> Nil]
    ELSE LET r == setEnvVarFromLine(version, ls[k])
             s == SetEnvResult(setEnvFunc, r.key, r.value)
         IN IF isCommentOrEmpty(ls[k]) THEN RunLines(e, ls, k + 1, calls)
            ELSE IF r.err # Nil
            THEN [env |-> e, lineIdx |-> k, calls |-> calls, err |-> r.err]
            ELSE IF s # Nil
            THEN [env |-> e, lineIdx |-> k,
                  calls |-> Append(calls, <<r.key, r.value>>), err |-> s]
            ELSE RunLines(Setenv(e, r.key, r.value), ls, k + 1,
                          Append(calls, <<r.key, r.value>>))

\* faulty variant: parseEnvFile goes through the whole file in one step, as
\* under a lock held over the file
ScanLineWholeFile ==
    /\ lpc = "scan"
    /\ LET file == dotenv[filePath]
           out == RunLines(env, file.lines, lineIdx, setCalls)
       IN /\ env' = out.env
          /\ lineIdx' = out.lineIdx
          /\ setCalls' = out.calls
          /\ IF out.err # Nil
             THEN /\ lret' = out.err
                  /\ lpc' = "done"
             ELSE IF file.readFails
             THEN /\ lret' = ScanError(filePath)
                  /\ lpc' = "done"
             ELSE /\ lpc' = "close"
                  /\ UNCHANGED lret
    /\ UNCHANGED <<version, g, fs, dotenv, setEnvFunc, envFiles, fileIdx,
                   handles, opened, env0, given, last>>
    /\ UNCHANGED configVars

\* one turn of the loop of parseEnvFile: scanner.Scan(), the line it yields,
\* and after the last line scanner.Err().  An error returned by parseEnvFile
\* is returned by LoadEnv at once, before file.Close().
ScanLine ==
    /\ lpc = "scan"
    /\ LET file == dotenv[filePath]
       IN IF lineIdx > Len(file.lines)
          THEN /\ IF file.readFails
                  THEN /\ lret' = ScanError(filePath)
                       /\ lpc' = "done"
                  ELSE /\ lpc' = "close"
                       /\ UNCHANGED lret
               /\ UNCHANGED <<env, lineIdx, setCalls>>
          ELSE LET line == file.lines[lineIdx]
                   r == setEnvVarFromLine(version, line)
                   e == SetEnvResult(setEnvFunc, r.key, r.value)
               IN IF isCommentOrEmpty(line)
                  THEN /\ lineIdx' = lineIdx + 1
                       /\ UNCHANGED <<env, lpc, lret, setCalls>>
                  ELSE IF r.err # Nil
                  THEN /\ lret' = r.err
                       /\ lpc' = "done"
                       /\ UNCHANGED <<env, lineIdx, setCalls>>
                  ELSE /\ setCalls' = Append(setCalls, <<r.key, r.value>>)
                       /\ IF e # Nil
                          THEN /\ lret' = e
                               /\ lpc' = "done"
                               /\ UNCHANGED <<env, lineIdx>>
                          ELSE /\ env' = Setenv(env, r.key, r.value)
                               /\ lineIdx' = lineIdx + 1
                               /\ UNCHANGED <<lpc, lret>>
    /\ UNCHANGED <<version, g, fs, dotenv, setEnvFunc, envFiles, fileIdx,
                   handles, opened, env0, given, last>>
    /\ UNCHANGED configVars

\* _ = file.Close() and the step of the range loop
CloseFile ==
    /\ lpc = "close"
    /\ handles' = handles \ {filePath}
    /\ fileIdx' = fileIdx + 1
    /\ lpc' = "open"
    /\ UNCHANGED <<version, g, fs, env, dotenv, setEnvFunc, envFiles, lineIdx,
                   lret, opened, setCalls, env0, given, last>>
    /\ UNCHANGED configVars

\* the caller takes the result and is ready to call again; a file left open
\* is unreachable from here on and is closed by its finalizer; the call is
\* remembered as the one before the next
LoadEnvReturn ==
    /\ lpc = "done"
    /\ lpc' = "idle"
    /\ envFiles' = <<>>
    /\ fileIdx' = 0
    /\ lineIdx' = 0
    /\ handles' = {}
    /\ lret' = NoRet
    /\ opened' = <<>>
    /\ setCalls' = <<>>
    /\ env0' = env
    /\ given' = <<>>
    /\ last' = [given |-> given, lret |-> lret, env |-> env]
    /\ UNCHANGED <<version, g, fs, env, dotenv, setEnvFunc>>
    /\ UNCHANGED configVars

NextEnv ==
    \/ LoadEnvCall
    \/ OpenFile
    \/ ScanLine
    \/ CloseFile
    \/ LoadEnvReturn

\* LoadEnv on files of several lines, called with several paths
InitEnv ==
    /\ version \in {"v1", "v2"}
    /\ g = IF version = "v2" THEN NewGoConfig(<<>>)
           ELSE [unmarshallFunc |-> "unmarshallGeneric"]
    /\ fs = [d \in DirNames |-> NoDir]
    /\ env \in EnvEnvironments
    /\ Idle
    /\ dotenv \in EnvFileSystems
    /\ setEnvFunc \in SetEnvFuncs(version)
    /\ LoadIdle
    /\ last = NoLast

SpecEnv == InitEnv /\ [][NextEnv]_vars

\* LoadEnv on a file ".env" of one line, for every line of Lines
InitLine ==
    /\ version \in {"v1", "v2"}
    /\ g = IF version = "v2" THEN NewGoConfig(<<>>)
           ELSE [unmarshallFunc |-> "unmarshallGeneric"]
    /\ fs = [d \in DirNames |-> NoDir]
    /\ env = EmptyEnv
    /\ Idle
    /\ \E l \in Lines :
           dotenv = [p \in EnvPaths |->
                        IF p = <<".env">> THEN File(<<l>>, FALSE) ELSE NoFile]
    /\ setEnvFunc = "os.Setenv"
    /\ LoadIdle
    /\ last = NoLast

SpecLine == InitLine /\ [][NextEnv]_vars

\* ParseConfig and LoadEnv called by two goroutines of one process: the
\* directory "config" holds app.yaml, ".env" holds lines of A=v, " A =v", A:v
InitAll ==
    /\ version \in {"v1", "v2"}
    /\ g = IF version = "v2" THEN NewGoConfig(<<>>)
           ELSE [unmarshallFunc |-> "unmarshallGeneric"]
    /\ fs = [d \in DirNames |->
                IF d = DefaultDir THEN Dir(<< Entry(n_app_yaml, TRUE) >>) ELSE NoDir]
    /\ env \in EnvEnvironments
    /\ Idle
    /\ \E ls \in SeqsUpTo({L_A_v, L_spaced, L_colon}, MaxLines) :
           dotenv = [p \in EnvPaths |->
                        IF p = <<".env">> THEN File(ls, FALSE)
                        ELSE IF p = <<"db.env">> THEN File(<<L_B_w, L_A_x>>, FALSE)
                        ELSE NoFile]
    /\ setEnvFunc = "os.Setenv"
    /\ LoadIdle
    /\ last = NoLast

NextAll ==
    \/ Next
    \/ NextEnv

SpecAll == InitAll /\ [][NextAll]_vars

----------------------------------------------------------------------------
(* What the claims speak of, stated on texts and listings directly.        *)

\* t[i..j] is a placeholder: "${", one or more word characters, "}"
IsPlaceholder(t, i, j) ==
    /\ 1 <= i /\ i + 3 <= j /\ j <= Len(t)
    /\ t[i] = "$" /\ t[i + 1] = "{" /\ t[j] = "}"
    /\ \A k \in (i + 2)..(j - 1) : IsWord(t[k])

Placeholders(t) == { p \in (1..Len(t)) \X (1..Len(t)) : IsPlaceholder(t, p[1], p[2]) }

NameOf(t, p) == SubSeq(t, p[1] + 2, p[2] - 1)

IsSet(e, name) == name \in DOMAIN e /\ e[name] # <<>>

AllSet(t, e) == \A p \in Placeholders(t) : IsSet(e, NameOf(t, p))

\* the placeholders of t whose variable is unset or empty
Missing(t, e) == { p \in Placeholders(t) : ~IsSet(e, NameOf(t, p)) }

LeftmostMissing(t, e) ==
    CHOOSE p \in Missing(t, e) : \A q \in Missing(t, e) : p[1] <= q[1]

\* t read from position i on, every placeholder replaced by its variable's value
\* and every other character kept
RECURSIVE SubstitutedFrom(_, _, _)
SubstitutedFrom(t, e, i) ==
    IF i > Len(t) THEN <<>>
    ELSE IF \E p \in Placeholders(t) : p[1] = i
    THEN LET p == CHOOSE q \in Placeholders(t) : q[1] = i
         IN e[NameOf(t, p)] \o SubstitutedFrom(t, e, p[2] + 1)
    ELSE <<t[i]>> \o SubstitutedFrom(t, e, i + 1)

Substituted(t, e) == SubstitutedFrom(t, e, 1)

\* the names of the placeholders of t, left to right
RECURSIVE NamesFrom(_, _)
NamesFrom(t, i) ==
    IF i > Len(t) THEN <<>>
    ELSE IF \E p \in Placeholders(t) : p[1] = i
    THEN LET p == CHOOSE q \in Placeholders(t) : q[1] = i
         IN <<NameOf(t, p)>> \o NamesFrom(t, p[2] + 1)
    ELSE NamesFrom(t, i + 1)

NamesInOrder(t) == NamesFrom(t, 1)

\* the entry name has a '.', its stem is the logical name up to case and its
\* extension passes the filter of the version
FirstDot(name) == CHOOSE i \in 1..Len(name) : name[i] = "." /\ \A j \in 1..(i - 1) : name[j] # "."
Stem(name) == SubSeq(name, 1, FirstDot(name) - 1)
Extension(name) == SubSeq(name, FirstDot(name) + 1, Len(name))
SameIgnoringCase(a, b) ==
    /\ Len(a) = Len(b)
    /\ \A i \in 1..Len(a) :
           \/ a[i] = b[i]
           \/ Code(a[i]) \in 65..90 /\ Code(b[i]) = Code(a[i]) + 32
           \/ Code(b[i]) \in 65..90 /\ Code(a[i]) = Code(b[i]) + 32
Filtered(v, ext) ==
    IF v = "v2" THEN ext = <<"g","o">>
    ELSE ext \notin { <<"y","a","m","l">>, <<"y","m","l">>, <<"j","s","o","n">> }
Eligible(v, name, logical) ==
    /\ \E i \in 1..Len(name) : name[i] = "."
    /\ SameIgnoringCase(Stem(name), logical)
    /\ ~Filtered(v, Extension(name))

\* the positions of the eligible entries in a listing
EligibleAt(v, entries, logical) ==
    { i \in 1..Len(entries) : Eligible(v, entries[i].name, logical) }
FirstEligible(v, entries, logical) ==
    CHOOSE i \in EligibleAt(v, entries, logical) :
        \A j \in EligibleAt(v, entries, logical) : i <= j

\* the directory the call is to list
WantedDir == IF directoryName # <<>> THEN Head(directoryName) ELSE "config"

Finished == pc \in {"done", "panicked"}

\* the call can locate a file: its directory can be listed, an entry of it is
\* eligible and the first eligible entry can be read
WantedEntries == fs[WantedDir].entries
HasEligible == fs[WantedDir].listable /\ EligibleAt(version, WantedEntries, configName) # {}
LocatedEntry == WantedEntries[FirstEligible(version, WantedEntries, configName)]
Located == HasEligible /\ LocatedEntry.readable
InCall == pc # "idle"

----------------------------------------------------------------------------
(* The claims.                                                             *)

\* C1: the stages of ParseConfig run in the order locate, substitute,
\* deserialize.  The deserializer is invoked at most once per call, only after
\* the file was located and read and every placeholder of it was substituted,
\* and it is given exactly the substituted text of the located file; no
\* variable is looked up before a file was read and no file is read before the
\* directory was listed.  When locating or substitution fails the deserializer
\* is never invoked and the target structure stays as it was.
C1_StagesInOrder ==
    /\ Len(unmarshalled) <= 1
    /\ filesRead # <<>> => listed # <<>>
    /\ lookups # <<>> => filesRead # <<>>
    /\ unmarshalled # <<>> =>
           /\ Located
           /\ filesRead = << <<WantedDir, LocatedEntry.name>> >>
           /\ AllSet(LocatedEntry.data, env)
           /\ lookups = NamesInOrder(LocatedEntry.data)
           /\ unmarshalled = << Substituted(LocatedEntry.data, env) >>
    /\ (InCall /\ (~Located \/ ~AllSet(LocatedEntry.data, env))) =>
           /\ unmarshalled = <<>>
           /\ structure = Zero
           /\ ret # Nil

C1_Witness ==
    /\ pc = "done"
    /\ ret = Nil
    /\ structure.state = "decoded"
    /\ Len(lookups) = 2
    /\ unmarshalled[1] # LocatedEntry.data

\* C2: when the located file's text has a placeholder whose variable is unset
\* or empty, the call does not return: it panics with ErrVariableNotFound
\* naming the leftmost such variable, and no text, partly substituted or not,
\* is returned or reaches the deserializer.  A panic happens in no other case,
\* and every finished call that did not panic returned nil or an error of
\* another kind.
C2_PanicOnMissingVariable ==
    /\ (InCall /\ Located /\ Missing(LocatedEntry.data, env) # {}) =>
           /\ pc # "unmarshall"
           /\ unmarshalled = <<>>
           /\ ret = NoRet
           /\ Finished =>
                  /\ pc = "panicked"
                  /\ panicVal = Errorf("ErrVariableNotFound",
                         NameOf(LocatedEntry.data, LeftmostMissing(LocatedEntry.data, env)))
    /\ pc = "panicked" => Located /\ Missing(LocatedEntry.data, env) # {}
    /\ pc = "done" =>
           /\ ret # NoRet
           /\ panicVal = NoRet
           /\ ~ErrorIs(ret, "ErrVariableNotFound")

C2_Witness ==
    /\ pc = "panicked"
    /\ version = "v2"
    /\ Len(lookups) = 2
    /\ panicVal.detail = NameA
    /\ NameA \in DOMAIN env
    /\ IsSet(env, NameB)

\* C3: for a text all of whose placeholders name variables set to non-empty
\* values, replaceEnvVariables returns (it does not panic) the text with every
\* placeholder replaced by the value of its variable and every other character
\* kept, having looked the variables up once each, left to right; a text with
\* no placeholder is returned unchanged.
C3_SubstituteAll ==
    AllSet(content, env) =>
        /\ pc # "panicked"
        /\ pc = "unmarshall" =>
               /\ buf = Substituted(content, env)
               /\ lookups = NamesInOrder(content)
               /\ Placeholders(content) = {} => buf = content

C3_Witness ==
    /\ pc = "unmarshall"
    /\ content = PhB \o <<"x">> \o PhA
    /\ AllSet(content, env)
    /\ buf = <<"w", "x", "v">>
    /\ lookups = <<NameB, NameA>>

\* C4: substitution is not recursive.  A value that contains '$', '{' or a
\* whole placeholder is inserted as it is: the variables looked up are those
\* of the placeholders of the text itself and no others, so a placeholder
\* inside a value neither is expanded nor makes the substitution fail.
HasMeta(v) == "$" \in Range(v) \/ "{" \in Range(v)

C4_NoRecursion ==
    /\ \A i \in 1..Len(lookups) :
           \E p \in Placeholders(content) : lookups[i] = NameOf(content, p)
    /\ Len(lookups) <= Cardinality(Placeholders(content))
    /\ (/\ AllSet(content, env)
        /\ \E p \in Placeholders(content) : HasMeta(env[NameOf(content, p)])) =>
           /\ pc # "panicked"
           /\ pc = "unmarshall" => buf = Substituted(content, env)

C4_Witness ==
    /\ pc = "unmarshall"
    /\ content = PhA
    /\ env[NameA] = PhB
    /\ NameB \notin DOMAIN env
    /\ buf = PhB

\* C5: read reads (and returns the content of) a directory entry only if the
\* entry's name has a '.', its stem (the text before the first '.') is the
\* logical name up to case and its extension (the text after the first '.')
\* passes the filter of the version: not "go" in v2, one of yaml, yml, json in
\* v1.  Entries without '.' or with a filtered extension are never read.
C5_OnlyEligibleEntries ==
    /\ \A k \in 1..Len(filesRead) : Eligible(version, filesRead[k][2], configName)
    /\ pc = "readfile" => Eligible(version, files[idx].name, configName)
    /\ pc \in {"replace", "unmarshall", "panicked"} =>
           /\ Len(filesRead) = 1
           /\ \E i \in 1..Len(WantedEntries) :
                  /\ WantedEntries[i].name = filesRead[1][2]
                  /\ WantedEntries[i].data = content

C5_Witness ==
    /\ version = "v2"
    /\ pc = "unmarshall"
    /\ Len(files) = 2
    /\ files[1].name = n_app_go
    /\ filesRead = << <<dir, n_app_toml>> >>

\* C6: read reads at most one file per call, the first eligible entry in the
\* order of the listing; the bytes read returns are the substituted content of
\* that entry, and the content itself when it has no placeholder.
C6_FirstMatchOnly ==
    /\ Len(filesRead) <= 1
    /\ filesRead # <<>> =>
           /\ HasEligible
           /\ filesRead[1] = <<WantedDir, LocatedEntry.name>>
    /\ pc = "unmarshall" =>
           /\ Located
           /\ content = LocatedEntry.data
           /\ buf = Substituted(LocatedEntry.data, env)
           /\ Placeholders(LocatedEntry.data) = {} => buf = LocatedEntry.data

C6_Witness ==
    /\ pc = "unmarshall"
    /\ Cardinality(EligibleAt(version, WantedEntries, configName)) = 2
    /\ WantedEntries[2].readable
    /\ filesRead = << <<WantedDir, n_APP_json>> >>
    /\ buf = <<"j">>

\* C7: when the directory was listed and none of its entries is eligible, read
\* scans every entry, reads no file and returns no content, and ParseConfig
\* returns the error that wraps ErrUnsupportedExt and names the logical name;
\* that error is returned in no other case.
C7_NoMatchIsUnsupportedExt ==
    pc = "done" =>
        /\ (fs[WantedDir].listable /\ ~HasEligible) <=> ErrorIs(ret, "ErrUnsupportedExt")
        /\ ErrorIs(ret, "ErrUnsupportedExt") =>
               /\ idx = Len(WantedEntries) + 1
               /\ filesRead = <<>>
               /\ content = <<>>
               /\ unmarshalled = <<>>
               /\ ret.detail = configName
               /\ version = "v2" => ret = Errorf("ErrUnsupportedExt", configName)

C7_Witness ==
    /\ version = "v2"
    /\ pc = "done"
    /\ ErrorIs(ret, "ErrUnsupportedExt")
    /\ Len(files) = 2
    /\ files[1].name = n_app
    /\ files[2].name = n_app_go
    /\ configName = <<"A","p","p">>

\* C8: a call lists exactly one directory, the first directoryName argument
\* when there is one and "config" otherwise; when that directory cannot be
\* listed no file is read and ParseConfig returns an error wrapping ErrOpenDir,
\* which it returns in no other case.
C8_OneDirectoryListed ==
    /\ Len(listed) <= 1
    /\ pc \notin {"idle", "readdir"} => listed = <<WantedDir>>
    /\ pc = "done" =>
           /\ ~fs[WantedDir].listable =>
                  /\ filesRead = <<>>
                  /\ unmarshalled = <<>>
                  /\ version = "v2" => ErrorIs(ret, "ErrOpenDir")
           /\ ErrorIs(ret, "ErrOpenDir") => ~fs[WantedDir].listable

C8_Witness ==
    /\ version = "v2"
    /\ pc = "done"
    /\ ErrorIs(ret, "ErrOpenDir")
    /\ Len(directoryName) = 2
    /\ fs[directoryName[2]].listable
    /\ listed = <<directoryName[1]>>

\* C9: when the first eligible entry cannot be read, that entry is the only one
\* read tried on, no variable is looked up, the deserializer is not invoked,
\* read returns no content and ParseConfig returns the error wrapping
\* ErrReadingFile, which it returns in no other case.
C9_ReadFailureIsTerminal ==
    /\ (InCall /\ HasEligible /\ ~LocatedEntry.readable) =>
           /\ pc \notin {"replace", "unmarshall", "panicked"}
           /\ lookups = <<>>
           /\ unmarshalled = <<>>
           /\ content = <<>>
           /\ pc = "done" =>
                  /\ filesRead = << <<WantedDir, LocatedEntry.name>> >>
                  /\ ErrorIs(ret, "ErrReadingFile")
                  /\ version = "v2" => ret = Errorf("ErrReadingFile", configName)
    /\ (pc = "done" /\ ErrorIs(ret, "ErrReadingFile")) =>
           HasEligible /\ ~LocatedEntry.readable

C9_Witness ==
    /\ version = "v2"
    /\ pc = "done"
    /\ ErrorIs(ret, "ErrReadingFile")
    /\ Cardinality(EligibleAt(version, WantedEntries, configName)) = 2
    /\ WantedEntries[2].readable
    /\ filesRead = << <<WantedDir, WantedEntries[1].name>> >>

\* the call of ParseConfig ended with the deserializer failing
DeserializerFailed == version = "v2" /\ pc = "done" /\ unmarshalled # <<>> /\ ret # Nil

\* C10 as stated: whenever the deserializer of the instance fails, the default
\* one or an injected one, ParseConfig returns an error wrapping
\* ErrUnmarshalling, and the deserializer is not invoked a second time.
C10_Original ==
    DeserializerFailed =>
        /\ ErrorIs(ret, "ErrUnmarshalling")
        /\ Len(unmarshalled) = 1

\* C10 amended: when the default deserializer fails ParseConfig returns an
\* error that wraps ErrUnmarshalling and carries the parser's error; when an
\* injected deserializer fails ParseConfig returns the error of that function
\* as it is, with no ErrUnmarshalling added; either way the deserializer is
\* not invoked a second time.
C10_Amended ==
    DeserializerFailed =>
        /\ Len(unmarshalled) = 1
        /\ IF g.unmarshallFunc = "unmarshallYAML"
           THEN ret = Errorf("ErrUnmarshalling", <<"yaml", "parse error">>)
           ELSE /\ ret = Errorf(g.unmarshallFunc, <<g.unmarshallFunc, "parse error">>)
                /\ ~ErrorIs(ret, "ErrUnmarshalling")

C10_Witness ==
    /\ DeserializerFailed
    /\ g.unmarshallFunc = "unmarshallJSON"
    /\ ~ErrorIs(ret, "ErrUnmarshalling")
    /\ structure.state = "partial"

----------------------------------------------------------------------------
(* What the claims on LoadEnv speak of, stated on lines and files directly. *)

HasEq(l) == \E i \in 1..Len(l) : l[i] = "="
FirstEq(l) == CHOOSE i \in 1..Len(l) : l[i] = "=" /\ \A j \in 1..(i - 1) : l[j] # "="

\* the text before and the text after the first "=" of a line
KeyText(l) == [i \in 1..(FirstEq(l) - 1) |-> l[i]]
ValueText(l) == [i \in 1..(Len(l) - FirstEq(l)) |-> l[FirstEq(l) + i]]

White(c) == c = " " \/ c = "\t"
KeyCharset(c) ==
    c \in Range(Digits) \cup Range(Upper) \cup Range(Lower) \cup {"_", ".", "-"}

\* a line that is all white space, or whose first character that is not
\* white space is "#"
CommentOrBlank(l) ==
    \/ \A i \in 1..Len(l) : White(l[i])
    \/ \E i \in 1..Len(l) : l[i] = "#" /\ \A j \in 1..(i - 1) : White(l[j])

\* a line of the form  space* KEY space* = rest  with KEY of the key charset
WellFormed(l) ==
    /\ HasEq(l)
    /\ \E a \in 1..Len(l), b \in 1..Len(l) :
           /\ a <= b
           /\ b < FirstEq(l)
           /\ \A i \in 1..(FirstEq(l) - 1) :
                  IF i < a \/ i > b THEN White(l[i]) ELSE KeyCharset(l[i])

\* a line that is neither skipped nor rejected
Accepted(l) == ~CommentOrBlank(l) /\ WellFormed(l)

\* the file a given path names: the path without its "." elements
Named(path) == SelectSeq(path, LAMBDA c : c # ".")

\* the paths a call with arguments a works on
PathsOf(a) == IF a = <<>> THEN << <<".env">> >> ELSE [i \in 1..Len(a) |-> Named(a[i])]

\* the lines of the files of a call, files in the order given, top to bottom
RECURSIVE LinesOfFiles(_, _)
LinesOfFiles(paths, k) ==
    IF k > Len(paths) THEN <<>>
    ELSE dotenv[paths[k]].lines \o LinesOfFiles(paths, k + 1)

\* the assignments <<key, value>> of the accepted lines among ls, in order
AssignmentsOf(ls) ==
    LET acc == SelectSeq(ls, Accepted)
    IN [i \in 1..Len(acc) |-> <<KeyText(acc[i]), ValueText(acc[i])>>]

KeysOf(as) == {as[i][1] : i \in 1..Len(as)}

\* the value of the last assignment to k in as
LastValue(as, k) ==
    LET i == CHOOSE j \in 1..Len(as) :
                 /\ as[j][1] = k
                 /\ \A m \in (j + 1)..Len(as) : as[m][1] # k
    IN as[i][2]

\* the one line of ".env" in the single-line runs
TheLine == dotenv[<<".env">>].lines[1]

\* LoadEnv has returned and the caller has not yet gone on
Returned == lpc = "done"

----------------------------------------------------------------------------
(* Claims on LoadEnv.                                                      *)

\* C11: after LoadEnv returned nil, every key assigned by an accepted line of
\* the given files holds the value of the last such assignment, files in the
\* order given and lines top to bottom, whatever value it had before the call
C11_LastAssignmentWins ==
    (Returned /\ lret = Nil) =>
        LET as == AssignmentsOf(LinesOfFiles(PathsOf(given), 1))
        IN \A k \in KeysOf(as) :
               /\ k \in DOMAIN env
               /\ env[k] = LastValue(as, k)

\* "./db.env" assigned x to A, ".env" after it assigned v, A was "old" before
C11_Witness ==
    /\ Returned
    /\ lret = Nil
    /\ Len(given) = 2
    /\ <<"A">> \in DOMAIN env0
    /\ env0[<<"A">>] = <<"o","l","d">>
    /\ setCalls = << <<<<"B">>, <<"w">>>>, <<<<"A">>, <<"x">>>>, <<<<"A">>, <<"v">>>> >>
    /\ env[<<"A">>] = <<"v">>

\* C12: a line that is all white space, or whose first character that is not
\* white space is "#", is skipped, raising no error and setting no variable:
\* LoadEnv on a file of such lines only returns nil and leaves the environment
\* as it was
C12_CommentAndBlankSkipped ==
    LET ls == dotenv[<<".env">>].lines
    IN (Returned /\ given = <<>> /\ \A i \in 1..Len(ls) : CommentOrBlank(ls[i])) =>
           /\ lret = Nil
           /\ setCalls = <<>>
           /\ env = env0

\* a line that is neither skipped nor well formed
Invalid(l) == ~CommentOrBlank(l) /\ ~WellFormed(l)

\* the lines of the file the call is at, <<>> past the last file
CurrentLines ==
    LET ps == PathsOf(given)
    IN IF fileIdx \in 1..Len(ps) THEN dotenv[ps[fileIdx]].lines ELSE <<>>

\* the call is inside the file it is at: the file was opened
InFile ==
    /\ lpc \in {"scan", "close", "done"}
    /\ fileIdx \in 1..Len(PathsOf(given))
    /\ dotenv[PathsOf(given)[fileIdx]].openable

\* the lines the call has gone past: all lines of the files before the one
\* it is at, and the lines of that file before the scanner's position
LinesBefore ==
    LET ps == PathsOf(given)
    IN LinesOfFiles(SubSeq(ps, 1, fileIdx - 1), 1)
       \o (IF InFile THEN SubSeq(CurrentLines, 1, lineIdx - 1) ELSE <<>>)

\* the environment e after the assignments as, applied in order
Applied(e, as) ==
    [k \in DOMAIN e \cup KeysOf(as) |->
        IF k \in KeysOf(as) THEN LastValue(as, k) ELSE e[k]]

\* the line " #": LoadEnv returned the invalid-format error for it
C12_Witness ==
    /\ Returned
    /\ given = <<>>
    /\ TheLine = <<" ", "#">>
    /\ ErrorIs(lret, "ErrInvalidEnvFormat")
    /\ lret.detail = <<" ", "#">>

\* C13: an invalid line is never gone past; when the scanner is at one,
\* LoadEnv has returned the ErrInvalidEnvFormat error carrying the raw line,
\* that line and the lines after it assigned nothing, and the assignments of
\* the lines before it are in the environment
C13_InvalidLineAborts ==
    /\ InFile => \A i \in 1..(lineIdx - 1) : ~Invalid(CurrentLines[i])
    /\ (Returned /\ InFile /\ lineIdx <= Len(CurrentLines)
          /\ Invalid(CurrentLines[lineIdx])) =>
           /\ ErrorIs(lret, "ErrInvalidEnvFormat")
           /\ lret.detail = CurrentLines[lineIdx]
           /\ setCalls = AssignmentsOf(LinesBefore)
           /\ env = Applied(env0, setCalls)
    /\ (Returned /\ ErrorIs(lret, "ErrInvalidEnvFormat")) =>
           /\ InFile
           /\ lineIdx <= Len(CurrentLines)
           /\ Invalid(CurrentLines[lineIdx])

\* ".env" is A=v then A:v; A, "old" before, is v after the failed call
C13_Witness ==
    /\ Returned
    /\ given = <<>>
    /\ dotenv[<<".env">>].lines = <<L_A_v, L_colon>>
    /\ ErrorIs(lret, "ErrInvalidEnvFormat")
    /\ lret.detail = L_colon
    /\ <<"A">> \in DOMAIN env0
    /\ env0[<<"A">>] = <<"o","l","d">>
    /\ env[<<"A">>] = <<"v">>

\* C14: the files are opened in the order given (".env" alone when none is
\* given), each after the one before it was gone through and closed; a call
\* that returned nil opened them all; a call that returned an error stopped
\* at the file that failed, with the assignments made until then applied and
\* no later file opened; the error is the ErrOpeningEnvFile error naming the
\* path exactly when that file could not be opened
C14_FilesInOrder ==
    LET ps == PathsOf(given)
    IN /\ lpc # "idle" =>
              /\ Len(opened) <= Len(ps)
              /\ opened = SubSeq(ps, 1, Len(opened))
              /\ Cardinality(handles) <= 1
       /\ lpc = "open" =>
              /\ handles = {}
              /\ Len(opened) = fileIdx - 1
              /\ \A i \in 1..Len(opened) : dotenv[opened[i]].openable
              /\ env = Applied(env0, AssignmentsOf(LinesOfFiles(opened, 1)))
       /\ (Returned /\ lret = Nil) => opened = ps
       /\ (Returned /\ IsError(lret)) =>
              /\ fileIdx \in 1..Len(ps)
              /\ Len(opened) = fileIdx
              /\ env = Applied(env0, AssignmentsOf(LinesBefore))
              /\ ErrorIs(lret, "ErrOpeningEnvFile") <=> ~dotenv[ps[fileIdx]].openable
              /\ ErrorIs(lret, "ErrOpeningEnvFile") => lret.detail = ps[fileIdx]

\* ".env", "missing.env", "db.env" are given: ".env" set A, "missing.env"
\* failed to open, "db.env" was not opened
C14_Witness ==
    /\ Returned
    /\ Len(given) = 3
    /\ dotenv[<<".env">>].lines = <<L_A_v>>
    /\ opened = << <<".env">>, <<"missing.env">> >>
    /\ ErrorIs(lret, "ErrOpeningEnvFile")
    /\ lret.detail = <<"missing.env">>
    /\ <<"A">> \in DOMAIN env0
    /\ env0[<<"A">>] = <<"o","l","d">>
    /\ env[<<"A">>] = <<"v">>
    /\ <<"B">> \notin DOMAIN env

\* C15: every file LoadEnv opened is closed when it returns, on every exit
\* path: after the return no file it opened is still open
C15_HandlesReleased == Returned => handles = {}

\* LoadEnv returned the invalid-format error of "A:v" with ".env" open
C15_Witness ==
    /\ Returned
    /\ dotenv[<<".env">>].lines = <<L_colon>>
    /\ ErrorIs(lret, "ErrInvalidEnvFormat")
    /\ handles = { <<".env">> }

\* C16: every key passed to the setter is not empty and made of characters of
\* [A-Za-z0-9_.-] only, also for lines with white space around the key
C16_KeysInCharset ==
    \A i \in 1..Len(setCalls) :
        LET key == setCalls[i][1]
        IN /\ key # <<>>
           /\ \A j \in 1..Len(key) : KeyCharset(key[j])

\* C17: the value passed to the setter is the raw text after the first "=" of
\* the line, with its further "=", its "#" and its white space, and is empty
\* when nothing follows the "="; the variable set holds that value
C17_ValueIsRawRemainder ==
    /\ \A i \in 1..Len(setCalls) : setCalls[i][2] = ValueText(TheLine)
    /\ (Returned /\ lret = Nil /\ setCalls # <<>>) =>
           env[KeyText(TheLine)] = ValueText(TheLine)

\* the line "A= =": the value passed and set is " ="
C17_Witness ==
    /\ Returned
    /\ lret = Nil
    /\ TheLine = <<"A", "=", " ", "=">>
    /\ setCalls = << <<<<"A">>, <<" ", "=">>>> >>
    /\ env[<<"A">>] = <<" ", "=">>

\* the setter in use fails on key, value
Fails(key, value) ==
    \/ setEnvFunc = "mock"
    \/ \E j \in 1..Len(value) : value[j] = "\\0"

\* C18: a call of the setter that failed is the last one of the LoadEnv call:
\* LoadEnv has returned the setter's error without going past the line or
\* opening another file, and the assignments made before are in the environment
C18_SetterFailureAborts ==
    /\ \A i \in 1..Len(setCalls) :
           Fails(setCalls[i][1], setCalls[i][2]) =>
               /\ i = Len(setCalls)
               /\ Returned
               /\ IsError(lret)
               /\ lret.chain[1] \in {"setenv", "simulated error setting"}
               /\ InFile
               /\ Len(opened) = fileIdx
               /\ lineIdx <= Len(CurrentLines)
               /\ Accepted(CurrentLines[lineIdx])
               /\ setCalls[i] = <<KeyText(CurrentLines[lineIdx]),
                                  ValueText(CurrentLines[lineIdx])>>
               /\ env = Applied(env0, AssignmentsOf(LinesBefore))
    /\ (Returned /\ lret = Nil) =>
           \A i \in 1..Len(setCalls) : ~Fails(setCalls[i][1], setCalls[i][2])

\* ".env" is A=v then B= with a byte 0: os.Setenv failed on the second line,
\* A is set, B is not, "db.env" was not opened
C18_Witness ==
    /\ Returned
    /\ setEnvFunc = "os.Setenv"
    /\ Len(given) = 3
    /\ dotenv[<<".env">>].lines = <<L_A_v, L_B_nul>>
    /\ opened = << <<".env">> >>
    /\ lret.chain = <<"setenv", "EINVAL">>
    /\ env[<<"A">>] = <<"v">>
    /\ <<"B">> \notin DOMAIN env

\* C19: setEnvVarFromLine gives the same outcome with the split check before
\* the regular expression (v2) and after it (v1): a line the expression
\* matches has two parts, the lines accepted are the well-formed ones, a line
\* without "=" or with nothing before it is rejected with the invalid-format
\* error; the call under way does what the function says
C19_CheckOrderIrrelevant ==
    LET l == TheLine
        r1 == setEnvVarFromLine("v1", l)
        r2 == setEnvVarFromLine("v2", l)
        r == setEnvVarFromLine(version, l)
    IN /\ r1 = r2
       /\ MatchString(l) => Len(SplitN(l, "=")) = 2
       /\ r2.err = Nil <=> WellFormed(l)
       /\ r2.err = Nil => r2.key = KeyText(l) /\ r2.value = ValueText(l)
       /\ r2.err # Nil => ErrorIs(r2.err, "ErrInvalidEnvFormat") /\ r2.err.detail = l
       /\ (~HasEq(l) \/ KeyText(l) = <<>>) => r2.err # Nil
       /\ (Returned /\ given = <<>> /\ ~isCommentOrEmpty(l)) =>
              /\ r.err = Nil => setCalls = << <<r.key, r.value>> >>
              /\ r.err # Nil => setCalls = <<>> /\ lret = r.err

\* the earlier implementation on the line "=A": the expression rejects it
\* although it has two parts
C19_Witness ==
    /\ version = "v1"
    /\ Returned
    /\ given = <<>>
    /\ TheLine = <<"=", "A">>
    /\ Len(SplitN(TheLine, "=")) = 2
    /\ ErrorIs(lret, "ErrInvalidEnvFormat")
    /\ setCalls = <<>>

\* the line " A =": the key passed to the setter, and set, is " A "
C16_Witness ==
    /\ Returned
    /\ lret = Nil
    /\ TheLine = <<" ", "A", " ", "=">>
    /\ setCalls = << << <<" ", "A", " ">>, <<>> >> >>
    /\ <<" ", "A", " ">> \in DOMAIN env

\* C20: a step of ParseConfig leaves the environment as it is; a step that
\* changes the environment is LoadEnv at an accepted line, sets the variable
\* whose key is the text before the first "=" of that line, unsets nothing and
\* leaves every other variable as it is
C20_EnvFrame ==
    [][ /\ configVars' # configVars => env' = env
        /\ env' # env =>
               /\ lpc = "scan"
               /\ InFile
               /\ lineIdx <= Len(CurrentLines)
               /\ Accepted(CurrentLines[lineIdx])
               /\ lpc' = "scan"
               /\ DOMAIN env' = DOMAIN env \cup {KeyText(CurrentLines[lineIdx])}
               /\ \A k \in DOMAIN env :
                      k # KeyText(CurrentLines[lineIdx]) => env'[k] = env[k]
      ]_vars

\* ParseConfig has panicked on ${B} and LoadEnv has failed at the second line
\* of ".env": A was changed from "old" to v, C is as it was, B is not set
C20_Witness ==
    /\ pc = "panicked"
    /\ Returned
    /\ dotenv[<<".env">>].lines = <<L_A_v, L_colon>>
    /\ IsError(lret)
    /\ env0 = [k \in { <<"A">>, <<"C">> } |-> IF k = <<"A">> THEN <<"o","l","d">> ELSE <<"k">>]
    /\ env = [k \in { <<"A">>, <<"C">> } |-> IF k = <<"A">> THEN <<"v">> ELSE <<"k">>]

\* the call that has returned was made with the arguments of the call before
SameCallAgain == Returned /\ last.lret # NoRet /\ last.given = given

\* C21: LoadEnv called again with the same paths, the files unchanged, returns
\* what the call before returned and leaves the environment as that call left
\* it, after a success and after a failure at a line or at a file
C21_Idempotent ==
    SameCallAgain =>
        /\ lret = last.lret
        /\ env0 = last.env
        /\ env = last.env

\* "./db.env" then ".env", loaded twice with success: the second call set A
\* to x and back to v, the environment is as the first call left it
C21_Witness ==
    /\ SameCallAgain
    /\ Len(given) = 2
    /\ dotenv[<<".env">>].lines = <<L_A_v>>
    /\ lret = Nil
    /\ last.lret = Nil
    /\ setCalls = << <<<<"B">>, <<"w">>>>, <<<<"A">>, <<"x">>>>, <<<<"A">>, <<"v">>>> >>
    /\ env0[<<"A">>] = <<"v">>
    /\ env[<<"A">>] = <<"v">>
    /\ env = last.env

\* the variables whose value differs between the environments e and f
Changed(e, f) ==
    { k \in DOMAIN e \cup DOMAIN f :
          k \notin DOMAIN e \/ k \notin DOMAIN f \/ e[k] # f[k] }

\* C22: LoadEnv applies the assignments one at a time: a step that changes the
\* environment changes one variable and moves the scanner by one line, inside
\* the file, and no step of ParseConfig is part of it; between two lines the
\* environment is the one of the call's entry with the assignments of the
\* lines gone past
C22_OneAssignmentPerStep ==
    /\ [][env' # env =>
              /\ Cardinality(Changed(env, env')) = 1
              /\ lineIdx' = lineIdx + 1
              /\ lpc = "scan" /\ lpc' = "scan"
              /\ fileIdx' = fileIdx
              /\ configVars' = configVars]_vars
    /\ [](lpc \in {"open", "scan", "close"} =>
              env = Applied(env0, AssignmentsOf(LinesBefore)))

\* "./db.env" is B=w then A=x; LoadEnv has applied B=w only when ParseConfig
\* substitutes y${B}${A}: it finds B and panics on A, which the next line sets
C22_Witness ==
    /\ lpc = "scan"
    /\ Len(given) = 2
    /\ fileIdx = 1
    /\ lineIdx = 2
    /\ CurrentLines = <<L_B_w, L_A_x>>
    /\ env0 = EmptyEnv
    /\ DOMAIN env = { <<"B">> }
    /\ pc = "panicked"
    /\ content = <<"y">> \o PhB \o PhA
    /\ lookups = <<NameB, NameA>>
    /\ ErrorIs(panicVal, "ErrVariableNotFound")
    /\ panicVal.detail = NameA

\* the same files with A "old" before the call: the substituted text given to
\* the deserializer holds the new B and the old A, while LoadEnv is still at
\* the line that sets A
C22_MixedText ==
    /\ lpc = "scan"
    /\ Len(given) = 2
    /\ fileIdx = 1
    /\ lineIdx = 2
    /\ CurrentLines = <<L_B_w, L_A_x>>
    /\ pc = "done"
    /\ content = <<"y">> \o PhB \o PhA
    /\ unmarshalled = << <<"y", "w", "o", "l", "d">> >>

====
